---------------------------- MODULE Spec2Model ----------------------------
(***************************************************************************)
(* NEXUS AI Engine: the four request handlers of app/routers (chat,        *)
(* parse_invoice, predict_demand, recommend_upsell) as a state machine.    *)
(*                                                                         *)
(* None of the handlers contains an await, so each runs to completion on   *)
(* the event loop: one action per handler.  The state is the configuration *)
(* (settings.OPENAI_API_KEY, the association table) and the observable     *)
(* record of the last request handled: its input, the HTTP status, detail  *)
(* and body of the response, the number of invocations of the external     *)
(* collaborator, and the message sequence handed to it.                    *)
(*                                                                         *)
(* Text is a sequence of one-character strings, so startswith, replace,    *)
(* strip, lower and the "in" substring test are computed on characters.    *)
(* Confidences are kept in hundredths (0.75 is 75), the unit round(x, 2)   *)
(* produces; Prophet's sums and interval widths are kept in tenths.        *)
(***************************************************************************)
EXTENDS Integers, Sequences, FiniteSets, TLC

VARIABLES
    OPENAI_API_KEY,              \* TRUE iff settings.OPENAI_API_KEY is non-empty
    FREQUENTLY_BOUGHT_TOGETHER,  \* the module-level association table
    op,                          \* handler that served the last request
    request,                     \* the last request
    status,                      \* HTTP status of the response (200 on success)
    detail,                      \* HTTPException detail ("" on success)
    body,                        \* response body (<<>> on failure)
    calls,                       \* invocations of the external collaborator
    reply,                       \* what the collaborator answered, if invoked
    messages,                    \* messages passed to chat.completions.create
    inflight                     \* locals of the recommend-upsell calls in progress

vars == <<OPENAI_API_KEY, FREQUENTLY_BOUGHT_TOGETHER, op, request, status,
          detail, body, calls, reply, messages, inflight>>

---------------------------------------------------------------------------
(* Bounds of the model *)

MaxCart == 4
MaxHist == 6
MaxSales == 3
MaxChunks == 2
MaxRequests == 2

Min(a, b) == IF a < b THEN a ELSE b
Max(a, b) == IF a > b THEN a ELSE b

SeqsUpTo(S, n) == UNION {[1..k -> S] : k \in 0..n}

---------------------------------------------------------------------------
(* Python str operations on character sequences *)

MatchesAt(s, p, i) ==
    /\ i + Len(p) - 1 <= Len(s)
    /\ \A k \in 1..Len(p) : s[i + k - 1] = p[k]

\* s.startswith(p)
StartsWith(s, p) == MatchesAt(s, p, 1)

\* p in s
Contains(s, p) == \E i \in 1..(Len(s) - Len(p) + 1) : MatchesAt(s, p, i)

\* s.replace(p, ""): every non-overlapping occurrence, leftmost first
RECURSIVE Remove(_, _)
Remove(s, p) ==
    LET found == {i \in 1..(Len(s) - Len(p) + 1) : MatchesAt(s, p, i)}
    IN  IF found = {} THEN s
        ELSE LET first == CHOOSE i \in found : \A j \in found : i <= j
             IN  SubSeq(s, 1, first - 1)
                     \o Remove(SubSeq(s, first + Len(p), Len(s)), p)

\* characters that cannot be written inside a string of this module
BT == "backtick"
DQ == "dquote"
NL == "newline"
FF == "formfeed"
TAB == "tab"
CR == "return"

\* characters str.strip() removes; json.loads skips only the first four
PyWhitespace == {" ", NL, TAB, CR, FF}
JsonWhitespace == {" ", NL, TAB, CR}

\* s without its leading (trailing) characters of the set ws
LStrip(s, ws) ==
    LET kept == {i \in 1..Len(s) : s[i] \notin ws}
    IN  IF kept = {} THEN <<>>
        ELSE SubSeq(s, CHOOSE i \in kept : \A j \in kept : i <= j, Len(s))

RStrip(s, ws) ==
    LET kept == {i \in 1..Len(s) : s[i] \notin ws}
    IN  IF kept = {} THEN <<>>
        ELSE SubSeq(s, 1, CHOOSE i \in kept : \A j \in kept : i >= j)

\* s.strip()
Strip(s) == RStrip(LStrip(s, PyWhitespace), PyWhitespace)

UpperCase ==
    <<"A","B","C","D","E","F","G","H","I","J","K","L","M","N","O","P","Q",
      "R","S","T","U","V","W","X","Y","Z">>
LowerCase ==
    <<"a","b","c","d","e","f","g","h","i","j","k","l","m","n","o","p","q",
      "r","s","t","u","v","w","x","y","z">>

LowerChar(c) ==
    IF \E i \in 1..26 : UpperCase[i] = c
    THEN LowerCase[CHOOSE i \in 1..26 : UpperCase[i] = c]
    ELSE c

\* s.lower()
Lower(s) == [i \in 1..Len(s) |-> LowerChar(s[i])]

\* str(e) of an HTTPException: "<status_code>: <detail>"
StatusText(code) ==
    CASE code = 400 -> <<"4","0","0">>
      [] code = 401 -> <<"4","0","1">>
      [] code = 429 -> <<"4","2","9">>
      [] code = 500 -> <<"5","0","0">>

HTTPExceptionStr(code, text) == StatusText(code) \o <<":"," ">> \o text

---------------------------------------------------------------------------
(* String literals of the source *)

\* 'api_key'
API_KEY ==
    <<"a","p","i","_","k","e","y">>

\* 'quota'
QUOTA ==
    <<"q","u","o","t","a">>

\* 'OpenAI API key not configured'
DetailKeyNotConfigured ==
    <<"O","p","e","n","A","I"," ","A","P","I"," ","k","e","y"," ","n","o",
      "t"," ","c","o","n","f","i","g","u","r","e","d">>

\* 'OpenAI library not installed'
DetailChatNotInstalled ==
    <<"O","p","e","n","A","I"," ","l","i","b","r","a","r","y"," ","n","o",
      "t"," ","i","n","s","t","a","l","l","e","d">>

\* 'OpenAI library not installed. Please install with: pip install openai'
DetailOcrNotInstalled ==
    <<"O","p","e","n","A","I"," ","l","i","b","r","a","r","y"," ","n","o",
      "t"," ","i","n","s","t","a","l","l","e","d","."," ","P","l","e","a",
      "s","e"," ","i","n","s","t","a","l","l"," ","w","i","t","h",":"," ",
      "p","i","p"," ","i","n","s","t","a","l","l"," ","o","p","e","n","a",
      "i">>

\* 'Invalid OpenAI API key'
DetailInvalidKey ==
    <<"I","n","v","a","l","i","d"," ","O","p","e","n","A","I"," ","A","P",
      "I"," ","k","e","y">>

\* 'OpenAI API quota exceeded'
DetailQuotaExceeded ==
    <<"O","p","e","n","A","I"," ","A","P","I"," ","q","u","o","t","a"," ",
      "e","x","c","e","e","d","e","d">>

\* 'Chat error: '
PrefixChatError ==
    <<"C","h","a","t"," ","e","r","r","o","r",":"," ">>

\* 'Invoice parsing error: '
PrefixInvoiceError ==
    <<"I","n","v","o","i","c","e"," ","p","a","r","s","i","n","g"," ","e",
      "r","r","o","r",":"," ">>

\* 'Failed to parse GPT-4o response as JSON: '
PrefixJsonError ==
    <<"F","a","i","l","e","d"," ","t","o"," ","p","a","r","s","e"," ","G",
      "P","T","-","4","o"," ","r","e","s","p","o","n","s","e"," ","a","s",
      " ","J","S","O","N",":"," ">>

\* 'Need at least 3 months of historical data for forecasting'
DetailNeedThree ==
    <<"N","e","e","d"," ","a","t"," ","l","e","a","s","t"," ","3"," ","m",
      "o","n","t","h","s"," ","o","f"," ","h","i","s","t","o","r","i","c",
      "a","l"," ","d","a","t","a"," ","f","o","r"," ","f","o","r","e","c",
      "a","s","t","i","n","g">>

\* 'Number of sales values must match number of dates'
DetailLengthMismatch ==
    <<"N","u","m","b","e","r"," ","o","f"," ","s","a","l","e","s"," ","v",
      "a","l","u","e","s"," ","m","u","s","t"," ","m","a","t","c","h"," ",
      "n","u","m","b","e","r"," ","o","f"," ","d","a","t","e","s">>

\* 'Prophet library not installed. Please install with: pip install prophet'
DetailProphetNotInstalled ==
    <<"P","r","o","p","h","e","t"," ","l","i","b","r","a","r","y"," ","n",
      "o","t"," ","i","n","s","t","a","l","l","e","d","."," ","P","l","e",
      "a","s","e"," ","i","n","s","t","a","l","l"," ","w","i","t","h",":",
      " ","p","i","p"," ","i","n","s","t","a","l","l"," ","p","r","o","p",
      "h","e","t">>

\* 'Forecasting error: '
PrefixForecastError ==
    <<"F","o","r","e","c","a","s","t","i","n","g"," ","e","r","r","o","r",
      ":"," ">>

\* 'Unknown datetime string format, unable to parse: soon'
MsgBadDate ==
    <<"U","n","k","n","o","w","n"," ","d","a","t","e","t","i","m","e"," ",
      "s","t","r","i","n","g"," ","f","o","r","m","a","t",","," ","u","n",
      "a","b","l","e"," ","t","o"," ","p","a","r","s","e",":"," ","s","o",
      "o","n">>

\* 'Optimization terminated abnormally'
MsgFitFailed ==
    <<"O","p","t","i","m","i","z","a","t","i","o","n"," ","t","e","r","m",
      "i","n","a","t","e","d"," ","a","b","n","o","r","m","a","l","l","y">>

\* 'Error code: 401 - invalid_api_key'
MsgInvalidApiKey ==
    <<"E","r","r","o","r"," ","c","o","d","e",":"," ","4","0","1"," ","-",
      " ","i","n","v","a","l","i","d","_","a","p","i","_","k","e","y">>

\* 'Error code: 429 - insufficient_quota'
MsgInsufficientQuota ==
    <<"E","r","r","o","r"," ","c","o","d","e",":"," ","4","2","9"," ","-",
      " ","i","n","s","u","f","f","i","c","i","e","n","t","_","q","u","o",
      "t","a">>

\* 'Error code: 429 - rate_limit_exceeded'
MsgRateLimit ==
    <<"E","r","r","o","r"," ","c","o","d","e",":"," ","4","2","9"," ","-",
      " ","r","a","t","e","_","l","i","m","i","t","_","e","x","c","e","e",
      "d","e","d">>

\* 'Connection error.'
MsgConnection ==
    <<"C","o","n","n","e","c","t","i","o","n"," ","e","r","r","o","r",".">>

\* "'NoneType' object has no attribute 'current_page'"
MsgNoContext ==
    <<"'","N","o","n","e","T","y","p","e","'"," ","o","b","j","e","c","t",
      " ","h","a","s"," ","n","o"," ","a","t","t","r","i","b","u","t","e",
      " ","'","c","u","r","r","e","n","t","_","p","a","g","e","'">>

\* 'ParseInvoiceResponse() argument after ** must be a mapping, not list'
MsgNotMapping ==
    <<"P","a","r","s","e","I","n","v","o","i","c","e","R","e","s","p","o",
      "n","s","e","(",")"," ","a","r","g","u","m","e","n","t"," ","a","f",
      "t","e","r"," ","*","*"," ","m","u","s","t"," ","b","e"," ","a"," ",
      "m","a","p","p","i","n","g",","," ","n","o","t"," ","l","i","s","t">>

\* 'Expecting value: line 1 column 1 (char 0)'
MsgExpectingValue ==
    <<"E","x","p","e","c","t","i","n","g"," ","v","a","l","u","e",":"," ",
      "l","i","n","e"," ","1"," ","c","o","l","u","m","n"," ","1"," ","(",
      "c","h","a","r"," ","0",")">>

\* 'validation errors for ParseInvoiceResponse\ninvoice_date\n  Field required [type=missing, input_value='
ValidationHead ==
    <<"v","a","l","i","d","a","t","i","o","n"," ","e","r","r","o","r","s",
      " ","f","o","r"," ","P","a","r","s","e","I","n","v","o","i","c","e",
      "R","e","s","p","o","n","s","e",NL,"i","n","v","o","i","c","e","_",
      "d","a","t","e",NL," "," ","F","i","e","l","d"," ","r","e","q","u",
      "i","r","e","d"," ","[","t","y","p","e","=","m","i","s","s","i","n",
      "g",","," ","i","n","p","u","t","_","v","a","l","u","e","=">>

\* ', input_type=dict]'
ValidationTail ==
    <<","," ","i","n","p","u","t","_","t","y","p","e","=","d","i","c","t",
      "]">>

\* '<backtick><backtick><backtick>'
FENCE ==
    <<BT,BT,BT>>

\* '<backtick><backtick><backtick>json'
FENCE_JSON ==
    <<BT,BT,BT,"j","s","o","n">>

\* 'json'
JSON_WORD ==
    <<"j","s","o","n">>

\* '{"vendor_name":"A","invoice_date":"2026-01-15","total_amount":1,"line_items":[]}'
DocValid ==
    <<"{",DQ,"v","e","n","d","o","r","_","n","a","m","e",DQ,":",DQ,"A",DQ,
      ",",DQ,"i","n","v","o","i","c","e","_","d","a","t","e",DQ,":",DQ,"2",
      "0","2","6","-","0","1","-","1","5",DQ,",",DQ,"t","o","t","a","l","_",
      "a","m","o","u","n","t",DQ,":","1",",",DQ,"l","i","n","e","_","i","t",
      "e","m","s",DQ,":","[","]","}">>

\* '{"api_key":1}'
DocApiKey ==
    <<"{",DQ,"a","p","i","_","k","e","y",DQ,":","1","}">>

\* '{"vendor_name":"quota"}'
DocQuota ==
    <<"{",DQ,"v","e","n","d","o","r","_","n","a","m","e",DQ,":",DQ,"q","u",
      "o","t","a",DQ,"}">>

\* '{}'
DocEmpty ==
    <<"{","}">>

\* '[]'
DocList ==
    <<"[","]">>

\* 'unknown'
Unknown ==
    <<"u","n","k","n","o","w","n">>

\* 'default'
DefaultKey ==
    <<"d","e","f","a","u","l","t">>

\* '/inventory'
PageInventory ==
    <<"/","i","n","v","e","n","t","o","r","y">>

\* '/crm/leads'
PageLeads ==
    <<"/","c","r","m","/","l","e","a","d","s">>

\* '/crm/deals'
PageDeals ==
    <<"/","c","r","m","/","d","e","a","l","s">>

\* '/sales'
PageSales ==
    <<"/","s","a","l","e","s">>

\* '/purchasing'
PagePurchasing ==
    <<"/","p","u","r","c","h","a","s","i","n","g">>

\* 'You are Nexus AI, a helpful assistant for the NEXUS CRM & ERP platform.\n\nCurrent Context:\n- User is viewing: '
PromptHead ==
    <<"Y","o","u"," ","a","r","e"," ","N","e","x","u","s"," ","A","I",",",
      " ","a"," ","h","e","l","p","f","u","l"," ","a","s","s","i","s","t",
      "a","n","t"," ","f","o","r"," ","t","h","e"," ","N","E","X","U","S",
      " ","C","R","M"," ","&"," ","E","R","P"," ","p","l","a","t","f","o",
      "r","m",".",NL,NL,"C","u","r","r","e","n","t"," ","C","o","n","t","e",
      "x","t",":",NL,"-"," ","U","s","e","r"," ","i","s"," ","v","i","e",
      "w","i","n","g",":"," ">>

\* '\n- Tenant: '
PromptTenant ==
    <<NL,"-"," ","T","e","n","a","n","t",":"," ">>

\* '\n\nYour capabilities: ...'
PromptTail ==
    <<NL,NL,"Y","o","u","r"," ","c","a","p","a","b","i","l","i","t","i","e",
      "s",":"," ",".",".",".">>

\* 't1'
TenantId ==
    <<"t","1">>

\* 'What are my low stock products?'
UserMessage ==
    <<"W","h","a","t"," ","a","r","e"," ","m","y"," ","l","o","w"," ","s",
      "t","o","c","k"," ","p","r","o","d","u","c","t","s","?">>

\* 'hi'
Hi ==
    <<"h","i">>

\* 'hello'
Hello ==
    <<"h","e","l","l","o">>

\* '/inventory/products'
PageInventoryProducts ==
    <<"/","i","n","v","e","n","t","o","r","y","/","p","r","o","d","u","c",
      "t","s">>

\* '/sales/inventory'
PageSalesInventory ==
    <<"/","s","a","l","e","s","/","i","n","v","e","n","t","o","r","y">>

\* '/dashboard'
PageDashboard ==
    <<"/","d","a","s","h","b","o","a","r","d">>

\* '/settings/defaults'
PageDefaults ==
    <<"/","s","e","t","t","i","n","g","s","/","d","e","f","a","u","l","t",
      "s">>

\* 'Show me /sales'
UserMessageSales ==
    <<"S","h","o","w"," ","m","e"," ","/","s","a","l","e","s">>

\* 'Extract the following information from this invoice image: ...'
ExtractionPrompt ==
    <<"E","x","t","r","a","c","t"," ","t","h","e"," ","f","o","l","l","o",
      "w","i","n","g"," ","i","n","f","o","r","m","a","t","i","o","n"," ",
      "f","r","o","m"," ","t","h","i","s"," ","i","n","v","o","i","c","e",
      " ","i","m","a","g","e",":"," ",".",".",".">>

---------------------------------------------------------------------------
(* Exceptions raised inside a handler's try block.  fastapi.HTTPException   *)
(* is a subclass of Exception (and not of ImportError), so an "except      *)
(* Exception" clause of the same try statement catches it.                 *)

HTTPException(code, text) ==
    [type |-> "HTTPException", msg |-> HTTPExceptionStr(code, text)]
ImportError(text) == [type |-> "ImportError", msg |-> text]
Exception(text) == [type |-> "Exception", msg |-> text]

Raise(exc, n) == [raised |-> TRUE, exc |-> exc, value |-> <<>>, calls |-> n]
Return(value, n) ==
    [raised |-> FALSE, exc |-> Exception(<<>>), value |-> value, calls |-> n]

Failure(code, text, n) ==
    [status |-> code, detail |-> text, body |-> <<>>, calls |-> n]
Success(value, n) ==
    [status |-> 200, detail |-> <<>>, body |-> value, calls |-> n]

---------------------------------------------------------------------------
(* demand.py *)

SalesVals == {-10, 10, 20}
DateVals == {"2025-01-01", "soon"}

\* Prophet's output over the 30 future days, in tenths: the sum of yhat and
\* mean(yhat_upper) - mean(yhat_lower)
YhatSums == {-25, 4, 150, 165, 200}
Widths == {-10, 0, 3, 60, 5000}
ProphetOutcomes ==
    [ok : {TRUE}, yhat : YhatSums, width : Widths]
        \cup {[ok |-> FALSE, yhat |-> 0, width |-> 0]}

MinHistory == 3

\* len(request.historical_sales) < 3
TooShort(sales) == Len(sales) < MinHistory

\* len(request.historical_sales) != len(request.dates)
LengthMismatch(sales, dates) == Len(sales) # Len(dates)

\* pd.to_datetime(request.dates) raises on a string that is no date
DatesParse(dates) == \A i \in 1..Len(dates) : dates[i] # "soon"

\* int(x) of a float given in tenths: truncation toward zero
IntOfTenths(x) == IF x >= 0 THEN x \div 10 ELSE -((-x) \div 10)

\* (mutant) the forecast without its floor at zero
NextMonthForecast_Unclamped(yhat) == IntOfTenths(yhat)

\* max(0, int(forecast['yhat'].tail(30).sum()))
NextMonthForecast(yhat) == Max(0, IntOfTenths(yhat))

\* 3 * df['y'].tail(3).mean()
SumLast3(sales) ==
    sales[Len(sales) - 2] + sales[Len(sales) - 1] + sales[Len(sales)]

\* sums s of three sales for which the double (s / 3.0) * 0.9 lies above the
\* integer 0.3 * s (all other products below 770 / 3 are exact at a tie)
DoubleRoundsUp == {50, 100, 200, 400}

\* forecast > recent_avg, with recent_avg = sum3 / 3
AboveAverage(forecast, sum3) == 3 * forecast > sum3

\* forecast < recent_avg * 0.9, as evaluated in double precision
BelowNineTenths(forecast, sum3) ==
    \/ 10 * forecast < 3 * sum3
    \/ 10 * forecast = 3 * sum3 /\ sum3 \in DoubleRoundsUp

\* (mutant) "decreasing" as soon as the forecast is below the average
Trend_NoBand(forecast, sum3) ==
    IF AboveAverage(forecast, sum3) THEN "increasing"
    ELSE IF 3 * forecast < sum3 THEN "decreasing"
    ELSE "stable"

Trend(forecast, sum3) ==
    IF AboveAverage(forecast, sum3) THEN "increasing"
    ELSE IF BelowNineTenths(forecast, sum3) THEN "decreasing"
    ELSE "stable"

\* round(num / den, 2) in hundredths, den > 0, ties to even
RoundHundredths(num, den) ==
    LET q == (200 * num + den) \div (2 * den)
        tie == (200 * num + den) % (2 * den) = 0
    IN  IF tie /\ q % 2 = 1 THEN q - 1 ELSE q

ConfFloor == 50
ConfCap == 95

\* round(max(0.5, min(0.95, 1 - uncertainty / max(1, forecast))), 2), in
\* hundredths; width is the uncertainty in tenths
Confidence(width, forecast) ==
    LET den == 10 * Max(1, forecast)
        num == den - width
    IN  IF 100 * num >= ConfCap * den THEN ConfCap
        ELSE IF 100 * num <= ConfFloor * den THEN ConfFloor
        ELSE RoundHundredths(num, den)

\* the try block of predict_demand
DemandTry(sales, dates, installed, outcome) ==
    IF TooShort(sales) THEN Raise(HTTPException(400, DetailNeedThree), 0)
    ELSE IF LengthMismatch(sales, dates)
    THEN Raise(HTTPException(400, DetailLengthMismatch), 0)
    ELSE IF ~installed THEN Raise(ImportError(DetailProphetNotInstalled), 0)
    ELSE IF ~DatesParse(dates) THEN Raise(Exception(MsgBadDate), 0)
    ELSE IF ~outcome.ok THEN Raise(Exception(MsgFitFailed), 1)
    ELSE LET forecast == NextMonthForecast(outcome.yhat)
         IN  Return([next_month_forecast |-> forecast,
                     confidence |-> Confidence(outcome.width, forecast),
                     trend |-> Trend(forecast, SumLast3(sales))], 1)

\* the except clauses of predict_demand
DemandExcept(r) ==
    IF ~r.raised THEN Success(r.value, r.calls)
    ELSE IF r.exc.type = "ImportError"
    THEN Failure(500, DetailProphetNotInstalled, r.calls)
    ELSE Failure(500, PrefixForecastError \o r.exc.msg, r.calls)

predict_demand ==
    /\ op = "none"
    /\ \E sales \in SeqsUpTo(SalesVals, MaxSales),
       dates \in SeqsUpTo(DateVals, MaxSales),
       installed \in BOOLEAN,
       outcome \in ProphetOutcomes :
        \E r \in {DemandExcept(DemandTry(sales, dates, installed, outcome))} :
            /\ op' = "predict_demand"
            /\ request' = [historical_sales |-> sales, dates |-> dates]
            /\ status' = r.status
            /\ detail' = r.detail
            /\ body' = r.body
            /\ calls' = r.calls
            /\ reply' = IF r.calls > 0 THEN outcome ELSE <<>>
            /\ messages' = <<>>
            /\ UNCHANGED <<OPENAI_API_KEY, FREQUENTLY_BOUGHT_TOGETHER, inflight>>

---------------------------------------------------------------------------
(* The external LLM collaborator (chat.completions.create).  A failure is   *)
(* the error the client raises: kind is what the collaborator reports (the *)
(* class of the error), text is str(e).                                    *)

UpstreamFailures ==
    {[ok |-> FALSE, kind |-> "authentication", text |-> MsgInvalidApiKey],
     [ok |-> FALSE, kind |-> "quota", text |-> MsgInsufficientQuota],
     [ok |-> FALSE, kind |-> "rate_limit", text |-> MsgRateLimit],
     [ok |-> FALSE, kind |-> "other", text |-> MsgConnection]}

Completion(text) == [ok |-> TRUE, kind |-> "none", text |-> text]

\* (mutant) the credential check left out
MissingCredential_Never(key) == FALSE

\* "not settings.OPENAI_API_KEY"
MissingCredential(key) == ~key

\* the final "except Exception" clause of chat and of parse_invoice
UpstreamExcept(msg, prefix, n) ==
    LET error_message == Lower(msg)
    IN  IF Contains(error_message, API_KEY)
        THEN Failure(401, DetailInvalidKey, n)
        ELSE IF Contains(error_message, QUOTA)
        THEN Failure(429, DetailQuotaExceeded, n)
        ELSE Failure(500, prefix \o msg, n)

---------------------------------------------------------------------------
(* chat.py.  An Optional value is a sequence of at most one element.       *)

\* ChatMessage: role is any str, the schema names 'user' and 'assistant'
HistoryEntries ==
    {[role |-> "user", content |-> Hi],
     [role |-> "assistant", content |-> Hello],
     [role |-> "tool", content |-> Hello]}

UserMessages == {UserMessage, UserMessageSales}

PageVals ==
    {<<>>, <<PageInventoryProducts>>, <<PageSalesInventory>>,
     <<PageDashboard>>, <<PageDefaults>>}

Contexts ==
    {<<>>} \cup
    {<<[current_page |-> p, conversation_history |-> h]>> :
        p \in PageVals, h \in SeqsUpTo(HistoryEntries, MaxHist)}

ChatOutcomes == {Completion(Hello)} \cup UpstreamFailures

\* request.context.current_page or "unknown"
CurrentPage(context) ==
    IF context.current_page = <<>> \/ context.current_page = <<<<>>>>
    THEN Unknown
    ELSE context.current_page[1]

\* the f-string system_prompt (its fixed text after the context lines cut)
SystemPrompt(current_page, tenant_id) ==
    PromptHead \o current_page \o PromptTenant \o tenant_id \o PromptTail

\* (mutant) conversation_history[:5]: the oldest entries instead of the latest
Recent_Oldest(history) == SubSeq(history, 1, Min(Len(history), 5))

\* conversation_history[-5:]
HistoryWindow == 5
Recent(history) ==
    SubSeq(history, Max(1, Len(history) - HistoryWindow + 1), Len(history))

\* the messages array
BuildMessages(req) ==
    LET context == req.context[1]
        recent == Recent(context.conversation_history)
    IN  <<[role |-> "system",
           content |-> SystemPrompt(CurrentPage(context), req.tenant_id)]>>
        \o [i \in 1..Len(recent) |->
               [role |-> recent[i].role, content |-> recent[i].content]]
        \o <<[role |-> "user", content |-> req.user_message]>>

\* suggestions_map, in insertion order
SuggestionsMap ==
    <<[page_path |-> PageInventory,
       suggestions |-> <<"View low stock alerts", "Check product details",
                         "Create purchase order">>],
      [page_path |-> PageLeads,
       suggestions |-> <<"Create new lead", "View pipeline",
                         "Export leads to CSV">>],
      [page_path |-> PageDeals,
       suggestions |-> <<"View deal pipeline", "Move deal to next stage",
                         "Generate sales report">>],
      [page_path |-> PageSales,
       suggestions |-> <<"Create new order", "View recent orders",
                         "Generate invoice">>],
      [page_path |-> PagePurchasing,
       suggestions |-> <<"Create purchase order", "Receive goods",
                         "View vendor list">>],
      [page_path |-> DefaultKey,
       suggestions |-> <<"View dashboard", "Check notifications",
                         "Browse help docs">>]>>

\* (mutant) the last entry that matches, not the first
FirstMatch_Last(entries, current_page) ==
    LET matching == {k \in 1..Len(entries) :
                        Contains(current_page, entries[k].page_path)}
    IN  IF matching = {} THEN SuggestionsMap[Len(SuggestionsMap)].suggestions
        ELSE entries[CHOOSE k \in matching : \A m \in matching : m <= k]
                 .suggestions

RECURSIVE FirstMatch(_, _)
FirstMatch(entries, current_page) ==
    IF entries = <<>> THEN SuggestionsMap[Len(SuggestionsMap)].suggestions
    ELSE IF Contains(current_page, Head(entries).page_path)
         THEN Head(entries).suggestions
         ELSE FirstMatch(Tail(entries), current_page)

generate_suggestions(current_page, user_message) ==
    FirstMatch(SuggestionsMap, current_page)

\* the try block of chat
ChatTry(req, key, installed, outcome) ==
    IF MissingCredential(key)
    THEN Raise(HTTPException(500, DetailKeyNotConfigured), 0)
    ELSE IF ~installed THEN Raise(ImportError(<<>>), 0)
    ELSE IF req.context = <<>> THEN Raise(Exception(MsgNoContext), 0)
    ELSE IF ~outcome.ok THEN Raise(Exception(outcome.text), 1)
    ELSE Return([response |-> outcome.text,
                 suggestions |->
                     generate_suggestions(CurrentPage(req.context[1]),
                                          req.user_message)], 1)

\* the except clauses of chat
ChatExcept(r) ==
    IF ~r.raised THEN Success(r.value, r.calls)
    ELSE IF r.exc.type = "ImportError"
    THEN Failure(500, DetailChatNotInstalled, r.calls)
    ELSE UpstreamExcept(r.exc.msg, PrefixChatError, r.calls)

chat ==
    /\ op = "none"
    /\ \E context \in Contexts, user_message \in UserMessages,
          installed \in BOOLEAN, outcome \in ChatOutcomes :
        LET req == [tenant_id |-> TenantId, user_message |-> user_message,
                    context |-> context]
        IN  \E r \in {ChatExcept(ChatTry(req, OPENAI_API_KEY, installed,
                                         outcome))} :
            /\ op' = "chat"
            /\ request' = req
            /\ status' = r.status
            /\ detail' = r.detail
            /\ body' = r.body
            /\ calls' = r.calls
            /\ reply' = IF r.calls > 0 THEN outcome ELSE <<>>
            /\ messages' = IF r.calls > 0 THEN BuildMessages(req) ELSE <<>>
            /\ UNCHANGED <<OPENAI_API_KEY, FREQUENTLY_BOUGHT_TOGETHER, inflight>>

---------------------------------------------------------------------------
(* ocr.py *)

\* pieces a reply of the vision model is made of: the word json, white
\* space, a single backtick, and five JSON documents
RawPieces ==
    {JSON_WORD, <<" ">>, <<NL>>, <<FF>>, <<BT>>,
     DocValid, DocApiKey, DocQuota, DocEmpty, DocList}

RECURSIVE Concat(_)
Concat(pieces) ==
    IF pieces = <<>> THEN <<>> ELSE Head(pieces) \o Concat(Tail(pieces))

RawReplies == {Concat(ps) : ps \in SeqsUpTo(RawPieces, MaxChunks)}

\* how the model wraps its reply: not at all, in bare fences, in fences
\* tagged json, or as a fenced block with the text on lines of its own
Wrappings == {"none", "plain", "tagged", "block"}

Wrap(w, r) ==
    CASE w = "none" -> r
      [] w = "plain" -> FENCE \o r \o FENCE
      [] w = "tagged" -> FENCE_JSON \o r \o FENCE
      [] w = "block" -> FENCE_JSON \o <<NL>> \o r \o <<NL>> \o FENCE

OcrOutcomes ==
    {[ok |-> TRUE, kind |-> "none", text |-> Wrap(w, r), raw |-> r,
      wrap |-> w] : r \in RawReplies, w \in Wrappings}
    \cup
    {[ok |-> FALSE, kind |-> f.kind, text |-> f.text, raw |-> <<>>,
      wrap |-> "none"] : f \in UpstreamFailures}

\* (mutant) only the opening fence removed
FenceStrip_LeadingOnly(content) ==
    IF StartsWith(content, FENCE_JSON)
    THEN Strip(SubSeq(content, Len(FENCE_JSON) + 1, Len(content)))
    ELSE IF StartsWith(content, FENCE)
    THEN Strip(SubSeq(content, Len(FENCE) + 1, Len(content)))
    ELSE content

\* "Remove markdown code blocks if present"
FenceStrip(content) ==
    IF StartsWith(content, FENCE_JSON)
    THEN Strip(Remove(Remove(content, FENCE_JSON), FENCE))
    ELSE IF StartsWith(content, FENCE) THEN Strip(Remove(content, FENCE))
    ELSE content

\* the JSON documents among the texts the pieces can form; two pieces side
\* by side are never one document
Documents == {DocValid, DocApiKey, DocQuota, DocEmpty, DocList}

\* json.loads(content): white space around the one document is skipped
JsonLoads(content) ==
    LET t == RStrip(LStrip(content, JsonWhitespace), JsonWhitespace)
    IN  IF t \in Documents THEN [ok |-> TRUE, doc |-> t]
        ELSE [ok |-> FALSE, doc |-> <<>>]

\* repr() of the parsed dict, from its JSON text
RECURSIVE PyRepr(_)
PyRepr(doc) ==
    IF doc = <<>> THEN <<>>
    ELSE (CASE Head(doc) = DQ -> <<"'">>
            [] Head(doc) = ":" -> <<":", " ">>
            [] Head(doc) = "," -> <<",", " ">>
            [] OTHER -> <<Head(doc)>>) \o PyRepr(Tail(doc))

Extraction ==
    [vendor_name |-> "A", invoice_date |-> "2026-01-15", total_amount |-> 1,
     line_items |-> <<>>]

\* ParseInvoiceResponse(**parsed_data): a list is no mapping (TypeError); a
\* dict without the required fields fails validation, and the error text
\* quotes the input (input_value=...)
Validate(doc, n) ==
    IF doc = DocValid THEN Return(Extraction, n)
    ELSE IF doc = DocList THEN Raise(Exception(MsgNotMapping), n)
    ELSE Raise(Exception(ValidationHead \o PyRepr(doc) \o ValidationTail), n)

\* the messages of the vision call: one user message (its text part; the
\* image_url part is the request's image_url)
VisionMessages == <<[role |-> "user", content |-> ExtractionPrompt]>>

\* the try block of parse_invoice
OcrTry(key, installed, outcome) ==
    IF MissingCredential(key)
    THEN Raise(HTTPException(500, DetailKeyNotConfigured), 0)
    ELSE IF ~installed THEN Raise(ImportError(<<>>), 0)
    ELSE IF ~outcome.ok THEN Raise(Exception(outcome.text), 1)
    ELSE LET parsed == JsonLoads(FenceStrip(outcome.text))
         IN  IF ~parsed.ok
             THEN Raise(HTTPException(500,
                            PrefixJsonError \o MsgExpectingValue), 1)
             ELSE Validate(parsed.doc, 1)

\* the except clauses of parse_invoice
OcrExcept(r) ==
    IF ~r.raised THEN Success(r.value, r.calls)
    ELSE IF r.exc.type = "ImportError"
    THEN Failure(500, DetailOcrNotInstalled, r.calls)
    ELSE UpstreamExcept(r.exc.msg, PrefixInvoiceError, r.calls)

\* the response of parse_invoice to one reply of the collaborator
ParseInvoice(key, installed, outcome) ==
    OcrExcept(OcrTry(key, installed, outcome))

parse_invoice ==
    /\ op = "none"
    /\ \E installed \in BOOLEAN, outcome \in OcrOutcomes :
        \E r \in {ParseInvoice(OPENAI_API_KEY, installed, outcome)} :
            /\ op' = "parse_invoice"
            /\ request' =
                   [image_url |-> "https://s3.amazonaws.com/bucket/invoice.jpg"]
            /\ status' = r.status
            /\ detail' = r.detail
            /\ body' = r.body
            /\ calls' = r.calls
            /\ reply' = IF r.calls > 0 THEN outcome ELSE <<>>
            /\ messages' = IF r.calls > 0 THEN VisionMessages ELSE <<>>
            /\ UNCHANGED <<OPENAI_API_KEY, FREQUENTLY_BOUGHT_TOGETHER, inflight>>

---------------------------------------------------------------------------
(* recommendations.py *)

\* random.uniform(-0.05, 0.05) after round(.., 2), in hundredths
MaxPerturb == 5
Perturbations == {-MaxPerturb, 0, MaxPerturb}

CartItems ==
    {"recommended-1", "recommended-2", "recommended-3",
     "complementary-product", "prod-123"}

AssociationTable ==
    [default |->
        <<[product_id |-> "recommended-1", confidence |-> 75,
           reason |-> "Popular combination"],
          [product_id |-> "recommended-2", confidence |-> 70,
           reason |-> "Frequently bought together"],
          [product_id |-> "recommended-3", confidence |-> 65,
           reason |-> "Similar customers bought"]>>]

\* draws of random.uniform one request can consume: one per appended product
MaxDraws == Len(AssociationTable["default"])

\* FREQUENTLY_BOUGHT_TOGETHER.get(item_id, FREQUENTLY_BOUGHT_TOGETHER["default"])
Associated(table, item_id) ==
    IF item_id \in DOMAIN table THEN table[item_id] ELSE table["default"]

\* "product_id not in seen_products"
NotSeen(product_id, seen) == product_id \notin seen

\* the inner loop: acc = [recs, seen]; the k-th append uses the k-th draw
RECURSIVE ScanAssociated(_, _, _)
ScanAssociated(associated, acc, noise) ==
    IF associated = <<>> THEN acc
    ELSE LET assoc == Head(associated)
             product_id == assoc.product_id
             next ==
                 IF NotSeen(product_id, acc.seen)
                 THEN [recs |-> Append(acc.recs,
                          [product_id |-> product_id,
                           confidence |->
                               assoc.confidence + noise[Len(acc.recs) + 1],
                           reason |-> assoc.reason]),
                       seen |-> acc.seen \cup {product_id}]
                 ELSE acc
         IN  ScanAssociated(Tail(associated), next, noise)

\* the outer loop over request.current_cart_items
RECURSIVE ScanCart(_, _, _, _)
ScanCart(items, table, acc, noise) ==
    IF items = <<>> THEN acc
    ELSE ScanCart(Tail(items), table,
                  ScanAssociated(Associated(table, Head(items)), acc, noise),
                  noise)

\* list.sort(key=confidence, reverse=True): stable, equal keys keep their order
RECURSIVE InsertDesc(_, _)
InsertDesc(x, sorted) ==
    IF sorted = <<>> THEN <<x>>
    ELSE IF Head(sorted).confidence >= x.confidence
         THEN <<Head(sorted)>> \o InsertDesc(x, Tail(sorted))
         ELSE <<x>> \o sorted

\* (mutant) the list left in the order of its appends
SortDesc_Unsorted(recs) == recs

RECURSIVE SortDesc(_)
SortDesc(recs) ==
    IF recs = <<>> THEN <<>>
    ELSE InsertDesc(recs[Len(recs)], SortDesc(SubSeq(recs, 1, Len(recs) - 1)))

\* recommendations[:5]
TopN == 5
Truncate(recs) == SubSeq(recs, 1, Min(Len(recs), TopN))

\* the popular list of the empty-cart branch: range(min(3, 5))
PopularCount == 3
Popular ==
    [i \in 1..PopularCount |->
        [product_id |-> CASE i = 1 -> "popular-0"
                          [] i = 2 -> "popular-1"
                          [] i = 3 -> "popular-2",
         confidence |-> 80 - (i - 1) * 10,
         reason |-> "Trending product"]]

Fallback ==
    <<[product_id |-> "complementary-product", confidence |-> 60,
       reason |-> "Complementary product"]>>

\* (mutant) the empty cart sent through the loop like any other cart
Recommend_NoEmptyBranch(cart, table, noise) ==
    LET seen0 == {cart[i] : i \in 1..Len(cart)}
        acc == ScanCart(cart, table, [recs |-> <<>>, seen |-> seen0], noise)
        top == Truncate(SortDesc(acc.recs))
    IN  IF top = <<>> THEN Fallback ELSE top

\* the recommendations recommend_upsell returns for a cart
Recommend(cart, table, noise) ==
    IF cart = <<>> THEN Popular
    ELSE LET seen0 == {cart[i] : i \in 1..Len(cart)}
             acc == ScanCart(cart, table, [recs |-> <<>>, seen |-> seen0], noise)
             top == Truncate(SortDesc(acc.recs))
         IN  IF top = <<>> THEN Fallback ELSE top

recommend_upsell ==
    /\ op = "none"
    /\ \E cart \in SeqsUpTo(CartItems, MaxCart),
       noise \in [1..MaxDraws -> Perturbations] :
        /\ op' = "recommend_upsell"
        /\ request' = [current_cart_items |-> cart]
        /\ status' = 200
        /\ detail' = <<>>
        /\ body' = Recommend(cart, FREQUENTLY_BOUGHT_TOGETHER, noise)
        /\ calls' = 0
        /\ reply' = <<>>
        /\ messages' = <<>>
        /\ UNCHANGED <<OPENAI_API_KEY, FREQUENTLY_BOUGHT_TOGETHER, inflight>>

---------------------------------------------------------------------------
(* recommend_upsell statement by statement, several calls in progress.      *)
(* Each call has its own frame of locals; the table is the one module-level *)
(* object every call reads.                                                 *)

\* the carts of the calls in progress
RunCarts == {<<>>, <<"recommended-1">>, <<"recommended-2", "prod-123">>}

\* the frame of a call that has not started or whose response was sent
NoFrame ==
    [pc |-> "idle", cart |-> <<>>, i |-> 0, j |-> 0,
     recommendations |-> <<>>, seen_products |-> {}, body |-> <<>>]

\* (mutant) one seen_products set at module level, shared by all calls
SeenProducts_Shared(frames, id) ==
    UNION {frames[r].seen_products : r \in DOMAIN frames}

\* seen_products: a local of the call
SeenProducts(frames, id) == frames[id].seen_products

\* the handler is entered: the empty-cart return, or the loop set up
Begin(id) ==
    /\ inflight[id].pc = "idle"
    /\ \E cart \in RunCarts :
        inflight' = [inflight EXCEPT ![id] =
            IF cart = <<>>
            THEN [NoFrame EXCEPT !.pc = "done", !.body = Popular]
            ELSE [NoFrame EXCEPT !.pc = "loop", !.cart = cart, !.i = 1, !.j = 1,
                                 !.seen_products =
                                     {cart[k] : k \in 1..Len(cart)}]]
    /\ UNCHANGED <<OPENAI_API_KEY, FREQUENTLY_BOUGHT_TOGETHER, op, request,
                   status, detail, body, calls, reply, messages>>

\* one pass of the inner loop body: the j-th product associated to item i
Visit(id) ==
    /\ inflight[id].pc = "loop"
    /\ inflight[id].i <= Len(inflight[id].cart)
    /\ LET frame == inflight[id]
           associated ==
               Associated(FREQUENTLY_BOUGHT_TOGETHER, frame.cart[frame.i])
           assoc == associated[frame.j]
           last == frame.j = Len(associated)
           moved == [frame EXCEPT !.i = IF last THEN @ + 1 ELSE @,
                                  !.j = IF last THEN 1 ELSE @ + 1]
       IN  IF NotSeen(assoc.product_id, SeenProducts(inflight, id))
           THEN \E d \in Perturbations :
                   inflight' = [inflight EXCEPT ![id] =
                       [moved EXCEPT
                           !.recommendations = Append(@,
                               [product_id |-> assoc.product_id,
                                confidence |-> assoc.confidence + d,
                                reason |-> assoc.reason]),
                           !.seen_products = @ \cup {assoc.product_id}]]
           ELSE inflight' = [inflight EXCEPT ![id] = moved]
    /\ UNCHANGED <<OPENAI_API_KEY, FREQUENTLY_BOUGHT_TOGETHER, op, request,
                   status, detail, body, calls, reply, messages>>

\* after the loops: sort, truncate, fallback, and the response is built
Finish(id) ==
    /\ inflight[id].pc = "loop"
    /\ inflight[id].i > Len(inflight[id].cart)
    /\ LET top == Truncate(SortDesc(inflight[id].recommendations))
       IN  inflight' = [inflight EXCEPT ![id] =
               [@ EXCEPT !.pc = "done",
                         !.body = IF top = <<>> THEN Fallback ELSE top]]
    /\ UNCHANGED <<OPENAI_API_KEY, FREQUENTLY_BOUGHT_TOGETHER, op, request,
                   status, detail, body, calls, reply, messages>>

\* the response is sent and the frame is dropped
Deliver(id) ==
    /\ inflight[id].pc = "done"
    /\ inflight' = [inflight EXCEPT ![id] = NoFrame]
    /\ UNCHANGED <<OPENAI_API_KEY, FREQUENTLY_BOUGHT_TOGETHER, op, request,
                   status, detail, body, calls, reply, messages>>

---------------------------------------------------------------------------
(* Properties *)

CartSet == {request.current_cart_items[i] :
               i \in 1..Len(request.current_cart_items)}

Rejected ==
    \/ TooShort(request.historical_sales)
    \/ LengthMismatch(request.historical_sales, request.dates)

\* C1: a predict-demand request with fewer than 3 sales values, or with
\* len(historical_sales) different from len(dates), fails with status 400.
C1_RejectedWith400 ==
    (op = "predict_demand" /\ Rejected) => status = 400

\* C2: no product_id of the returned recommendations is one of the
\* request's current_cart_items, on the lookup path and on the fallback.
C2_NoCartItemRecommended ==
    op = "recommend_upsell" =>
        \A i \in 1..Len(body) : body[i].product_id \notin CartSet

UpstreamFailed ==
    op \in {"chat", "parse_invoice"} /\ calls > 0 /\ ~reply.ok

\* C3: a failure of the collaborator call of chat or parse-invoice is
\* mapped by what the collaborator reports: authentication failure to 401,
\* quota or rate-limit failure to 429, any other failure to 500 with the
\* underlying message in the detail.
C3_FailureMappedByKind ==
    UpstreamFailed =>
        /\ reply.kind = "authentication" => status = 401
        /\ reply.kind \in {"quota", "rate_limit"} => status = 429
        /\ reply.kind = "other" =>
               status = 500 /\ Contains(detail, reply.text)

\* the reply, after fence stripping, is JSON of the InvoiceExtraction shape
WellFormed(content) ==
    JsonLoads(content).ok /\ JsonLoads(content).doc = DocValid

\* C4: a parse-invoice reply that, after fence stripping, is not valid JSON
\* or not of the InvoiceExtraction shape fails with status 500, never with
\* 400, 401 or 429, whatever text it contains.
C4_ParseFailureIs500 ==
    (op = "parse_invoice" /\ calls > 0 /\ reply.ok
        /\ ~WellFormed(FenceStrip(reply.text))) => status = 500

\* C5: the messages passed to the chat-completion call are the system
\* message, then the last min(len(history), 5) history entries in their
\* order, then a user message holding user_message.
C5_MessageSequence ==
    (op = "chat" /\ calls > 0) =>
        LET history == request.context[1].conversation_history
            k == Min(Len(history), 5)
        IN  /\ Len(messages) = 1 + k + 1
            /\ messages[1] =
                   [role |-> "system",
                    content |-> SystemPrompt(CurrentPage(request.context[1]),
                                             request.tenant_id)]
            /\ messages[Len(messages)] =
                   [role |-> "user", content |-> request.user_message]
            /\ \A i \in 1..k : messages[1 + i] = history[Len(history) - k + i]

C5_Witness ==
    /\ op = "chat" /\ calls > 0
    /\ Len(request.context[1].conversation_history) > 5
    /\ \E i \in 1..5 : messages[1 + i] # messages[2 + i]

\* C6: a request invokes its external collaborator at most once; a
\* predict-demand request rejected by the length checks invokes no model,
\* and a chat or parse-invoice request with an empty credential invokes no
\* LLM.
C6_AtMostOneInvocation ==
    /\ calls <= 1
    /\ (op = "predict_demand" /\ Rejected) => calls = 0
    /\ (op \in {"chat", "parse_invoice"} /\ ~OPENAI_API_KEY) => calls = 0

C6_Witness ==
    /\ op \in {"chat", "parse_invoice"}
    /\ ~OPENAI_API_KEY
    /\ status = 500
    /\ calls = 0

C8_ConfidenceAndForecastRange ==
    (op = "predict_demand" /\ status = 200) =>
        /\ body.confidence >= 50
        /\ body.confidence <= 95
        /\ body.next_month_forecast \in Nat

C8_Witness ==
    /\ op = "predict_demand" /\ status = 200
    /\ reply.yhat < 0
    /\ reply.width > 10 * body.next_month_forecast
    /\ body.confidence = 50

\* C9: the recommendation list has at most 5 entries, is ordered by
\* non-increasing confidence and holds no product_id twice, also when the
\* cart lists an item more than once.
C9_RankedDistinctAtMostFive ==
    op = "recommend_upsell" =>
        /\ Len(body) <= 5
        /\ \A i \in 1..(Len(body) - 1) :
               body[i].confidence >= body[i + 1].confidence
        /\ \A i, j \in 1..Len(body) :
               body[i].product_id = body[j].product_id => i = j

C9_Witness ==
    /\ op = "recommend_upsell"
    /\ \E i, j \in 1..Len(request.current_cart_items) :
           i # j /\ request.current_cart_items[i] = request.current_cart_items[j]
    /\ Len(body) = 3
    /\ body[1].confidence > body[3].confidence

\* a fenced reply whose text r carries no code-fence delimiter
FencedReply ==
    /\ op = "parse_invoice" /\ calls > 0 /\ reply.ok
    /\ reply.wrap \in {"plain", "tagged"}
    /\ ~Contains(reply.raw, FENCE)

\* the response to the reply r itself
Unwrapped == ParseInvoice(TRUE, TRUE, Completion(reply.raw))

\* C10 as stated: r wrapped in fences (tagged json or not) is
\* post-processed to the text r, and parses to the same result as r.
C10_WrappedSameAsRaw ==
    FencedReply =>
        /\ FenceStrip(reply.text) = reply.raw
        /\ status = Unwrapped.status
        /\ body = Unwrapped.body

\* C10 (amended): r wrapped in fences is post-processed to r with its
\* leading and trailing white space stripped, unless the fences carry no
\* tag and r begins with "json"; the result is that of r when the white
\* space stripped is white space JSON skips.
C10_WrappedStripsToRaw ==
    (FencedReply /\ ~(reply.wrap = "plain" /\ StartsWith(reply.raw, JSON_WORD)))
        =>
        /\ FenceStrip(reply.text) = Strip(reply.raw)
        /\ Strip(reply.raw) =
               RStrip(LStrip(reply.raw, JsonWhitespace), JsonWhitespace)
           => (status = Unwrapped.status /\ body = Unwrapped.body)

C10_Witness ==
    /\ FencedReply
    /\ reply.wrap = "tagged"
    /\ Strip(reply.raw) # reply.raw
    /\ status = 200

\* the product_ids the rows of the association table can recommend
TableIds ==
    UNION {{FREQUENTLY_BOUGHT_TOGETHER[k][i].product_id :
               i \in 1..Len(FREQUENTLY_BOUGHT_TOGETHER[k])} :
           k \in DOMAIN FREQUENTLY_BOUGHT_TOGETHER}

C12_RolesInFixedSet ==
    calls > 0 =>
        \A i \in 1..Len(messages) :
            messages[i].role \in {"system", "user", "assistant"}

\* the page prefixes of the suggestion table, highest priority first
PriorityOrder ==
    <<PageInventory, PageLeads, PageDeals, PageSales, PagePurchasing>>

\* the suggestion list the table holds under a key
ListOf(page_path) ==
    (CHOOSE e \in {SuggestionsMap[k] : k \in 1..Len(SuggestionsMap)} :
        e.page_path = page_path).suggestions

ProductIds(recs) == {recs[k].product_id : k \in 1..Len(recs)}

\* the product_ids the handler returns for a cart when it runs alone
AloneIds(cart) ==
    ProductIds(Recommend(cart, AssociationTable,
                         [k \in 1..MaxDraws |-> 0]))

\* C13: with recommend-upsell calls interleaved statement by statement,
\* the association table keeps its value, each call's seen set holds its
\* own cart and its own recommendations and nothing else, and the
\* product_ids a call returns are those it returns for its cart when it
\* runs alone.
C13_CallsDoNotInterfere ==
    /\ FREQUENTLY_BOUGHT_TOGETHER = AssociationTable
    /\ \A id \in DOMAIN inflight :
           LET frame == inflight[id]
           IN  /\ frame.pc = "loop" =>
                       frame.seen_products =
                           {frame.cart[k] : k \in 1..Len(frame.cart)}
                               \cup ProductIds(frame.recommendations)
               /\ frame.pc = "done" =>
                       ProductIds(frame.body) = AloneIds(frame.cart)

\* two calls done, each of which ran over a product the other's cart holds
C13_Witness ==
    /\ \A id \in DOMAIN inflight : inflight[id].pc = "done"
    /\ \E a, b \in DOMAIN inflight :
           /\ inflight[a].cart = <<"recommended-1">>
           /\ inflight[b].cart = <<"recommended-2", "prod-123">>
           /\ ProductIds(inflight[a].body) = {"recommended-2", "recommended-3"}
           /\ ProductIds(inflight[b].body) = {"recommended-1", "recommended-3"}

---------------------------------------------------------------------------
(* The state machine *)

Init ==
    /\ OPENAI_API_KEY \in BOOLEAN
    /\ FREQUENTLY_BOUGHT_TOGETHER = AssociationTable
    /\ op = "none"
    /\ request = <<>>
    /\ status = 0
    /\ detail = <<>>
    /\ body = <<>>
    /\ calls = 0
    /\ reply = <<>>
    /\ messages = <<>>
    /\ inflight = [id \in 1..MaxRequests |-> NoFrame]

\* the response is serialized and the request-scoped values are discarded;
\* the event loop is free to run the next handler
Respond ==
    /\ op # "none"
    /\ op' = "none"
    /\ request' = <<>>
    /\ status' = 0
    /\ detail' = <<>>
    /\ body' = <<>>
    /\ calls' = 0
    /\ reply' = <<>>
    /\ messages' = <<>>
    /\ UNCHANGED <<OPENAI_API_KEY, FREQUENTLY_BOUGHT_TOGETHER, inflight>>

Next ==
    \/ chat
    \/ parse_invoice
    \/ predict_demand
    \/ recommend_upsell
    \/ Respond

Spec == Init /\ [][Next]_vars

\* calls of recommend_upsell in progress together, their statements in any
\* order
NextConcurrent ==
    \/ \E id \in DOMAIN inflight : Begin(id)
    \/ \E id \in DOMAIN inflight : Visit(id)
    \/ \E id \in DOMAIN inflight : Finish(id)
    \/ \E id \in DOMAIN inflight : Deliver(id)

SpecConcurrent == Init /\ [][NextConcurrent]_vars

=============================================================================
